---- MODULE Spec2Model ----
(***************************************************************************)
(* Model of the media-reliability source matcher (src/src/matcher.ts),     *)
(* the registry schema (src/src/schema.ts) and the content construction    *)
(* (src/src/helpers.ts).                                                   *)
(*                                                                         *)
(* A string is a sequence of one-character strings.  A nullable value is   *)
(* Null (the empty tuple) or Some(v) (a one-element tuple).  A function    *)
(* that can throw yields a completion record: Normal(v) or Throw.          *)
(***************************************************************************)
EXTENDS Integers, Sequences, FiniteSets, TLC

VARIABLES settings, fails, event, fetched, post, pc, list, result, calls, ret

vars == <<settings, fails, event, fetched, post, pc, list, result, calls, ret>>

Null == <<>>
Some(v) == <<v>>
Get(o) == o[1]

Normal(v) == [type |-> "normal", value |-> v]
Throw == [type |-> "throw", value |-> FALSE]

(***************************************************************************)
(* Characters.                                                             *)
(***************************************************************************)
\* [A-Za-z0-9_]: the characters \b treats as word characters (no u flag)
LowerLetters == {"a", "b", "c", "d", "e", "i", "m", "o", "r", "t", "v", "w", "x"}
UpperLetters == {"A", "B", "X"}
WordChars == LowerLetters \cup UpperLetters \cup {"_"}
\* the characters \s matches
WhiteSpace == {" ", "\n"}
\* the characters . does not match
LineTerminators == {"\n"}
\* U+0300..U+036F, the combining marks normalizeText strips
CombiningMarks == {"U+0301"}

\* String.prototype.toLowerCase on one character
toLowerCase(c) ==
    CASE c = "A" -> "a"
      [] c = "B" -> "b"
      [] c = "X" -> "x"
      [] OTHER -> c

\* String.prototype.normalize('NFD') on one character: a precomposed letter
\* becomes its base letter followed by the combining mark
NFD(c) ==
    CASE c = "A_acute" -> <<"A", "U+0301">>
      [] c = "a_acute" -> <<"a", "U+0301">>
      [] OTHER -> <<c>>

RECURSIVE Flatten(_)
Flatten(ss) == IF ss = <<>> THEN <<>> ELSE Head(ss) \o Flatten(Tail(ss))

\* text.normalize('NFD').replace(/[\u0300-\u036f]/g, '').toLowerCase()
normalizeText(text) ==
    LET decomposed == Flatten([i \in DOMAIN text |-> NFD(text[i])])
        stripped == SelectSeq(decomposed, LAMBDA c : c \notin CombiningMarks)
    IN  [i \in DOMAIN stripped |-> toLowerCase(stripped[i])]

(***************************************************************************)
(* Regular expressions.  A pattern is a sequence of alternatives, each a   *)
(* sequence of nodes; a node that carries a sub-pattern (a group or a      *)
(* quantified atom) holds it in arg.                                       *)
(***************************************************************************)
Chr(c) == [t |-> "chr", c |-> c, arg |-> <<>>]         \* a literal character
AnyChar == [t |-> "any", c |-> "", arg |-> <<>>]       \* .
Bol == [t |-> "bol", c |-> "", arg |-> <<>>]           \* ^
Eol == [t |-> "eol", c |-> "", arg |-> <<>>]           \* $
WordBoundary == [t |-> "wb", c |-> "", arg |-> <<>>]   \* \b
Space == [t |-> "ws", c |-> "", arg |-> <<>>]          \* \s
Group(alts) == [t |-> "group", c |-> "", arg |-> alts] \* ( ... | ... )
Opt(node) == [t |-> "opt", c |-> "", arg |-> <<<<node>>>>]   \* x?
Star(node) == [t |-> "star", c |-> "", arg |-> <<<<node>>>>] \* x*
Plus(node) == [t |-> "plus", c |-> "", arg |-> <<<<node>>>>] \* x+

IsWordAt(text, i) == i >= 1 /\ i <= Len(text) /\ text[i] \in WordChars

\* Ends*(..., i, ic): the positions at which a match that starts before
\* character i can end; ic is the i flag
RECURSIVE EndsNode(_, _, _, _), EndsSeq(_, _, _, _), EndsAlts(_, _, _, _), EndsRepeat(_, _, _, _)
EndsNode(n, text, i, ic) ==
    CASE n.t = "chr" ->
            IF i <= Len(text)
               /\ (IF ic THEN toLowerCase(text[i]) = toLowerCase(n.c) ELSE text[i] = n.c)
            THEN {i + 1} ELSE {}
      [] n.t = "any" ->
            IF i <= Len(text) /\ text[i] \notin LineTerminators THEN {i + 1} ELSE {}
      [] n.t = "ws" ->
            IF i <= Len(text) /\ text[i] \in WhiteSpace THEN {i + 1} ELSE {}
      [] n.t = "bol" -> IF i = 1 THEN {i} ELSE {}
      [] n.t = "eol" -> IF i = Len(text) + 1 THEN {i} ELSE {}
      [] n.t = "wb" ->
            IF IsWordAt(text, i - 1) # IsWordAt(text, i) THEN {i} ELSE {}
      [] n.t = "group" -> EndsAlts(n.arg, text, i, ic)
      [] n.t = "opt" -> {i} \cup EndsAlts(n.arg, text, i, ic)
      [] n.t = "star" -> EndsRepeat(n.arg, text, {i}, ic)
      [] n.t = "plus" -> EndsRepeat(n.arg, text, EndsAlts(n.arg, text, i, ic), ic)

EndsSeq(nodes, text, from, ic) ==
    IF nodes = <<>> \/ from = {}
    THEN from
    ELSE EndsSeq(Tail(nodes), text,
                 UNION {EndsNode(Head(nodes), text, i, ic) : i \in from}, ic)

EndsAlts(alts, text, i, ic) ==
    UNION {EndsSeq(alts[k], text, {i}, ic) : k \in DOMAIN alts}

EndsRepeat(alts, text, from, ic) ==
    LET more == from \cup UNION {EndsAlts(alts, text, i, ic) : i \in from}
    IN  IF more = from THEN from ELSE EndsRepeat(alts, text, more, ic)

\* RegExp.prototype.test on a fresh RegExp (lastIndex = 0, so the g flag
\* changes nothing): is there a match starting anywhere in the text
test(alts, text, ic) ==
    \E i \in 1..(Len(text) + 1) : EndsAlts(alts, text, i, ic) # {}

(***************************************************************************)
(* A registry literal spliced into a pattern is read as pattern syntax.    *)
(* Fragment parses a literal: '.' is the wildcard, '+' repeats the atom    *)
(* before it (a SyntaxError when there is none; no literal of the pools    *)
(* begins with '+'), '(' opens a group that nothing in the literal closes  *)
(* (a SyntaxError, the templates being balanced), a backslash makes the    *)
(* character after it stand for itself, and every other character stands   *)
(* for itself.  ok = FALSE is the SyntaxError that new RegExp throws.      *)
(***************************************************************************)
RECURSIVE FragmentParse(_, _)
FragmentParse(lit, acc) ==
    IF lit = <<>> THEN [ok |-> TRUE, nodes |-> acc]
    ELSE LET c == Head(lit)
             bad == [ok |-> FALSE, nodes |-> <<>>]
         IN  CASE c = "\\" ->
                    IF Len(lit) = 1 THEN bad
                    ELSE FragmentParse(Tail(Tail(lit)), Append(acc, Chr(lit[2])))
               [] c = "." -> FragmentParse(Tail(lit), Append(acc, AnyChar))
               [] c = "+" ->
                    IF acc = <<>> \/ acc[Len(acc)].t = "plus" THEN bad
                    ELSE FragmentParse(Tail(lit),
                            Append(SubSeq(acc, 1, Len(acc) - 1), Plus(acc[Len(acc)])))
               [] c = "(" -> bad
               [] OTHER -> FragmentParse(Tail(lit), Append(acc, Chr(c)))

Fragment(lit) == FragmentParse(lit, <<>>)

\* new RegExp(pattern, flags).test(text)
RegExpTest(ok, alts, text, ic) ==
    IF ok THEN Normal(test(alts, text, ic)) ELSE Throw

(***************************************************************************)
(* The registry schema.                                                    *)
(***************************************************************************)
\* sourceSchema with a transform that leaves the name as it is
sourceSchema_RawName(data) ==
    [id |-> data.id,
     name |-> data.name,
     nameIsCommon |-> data.nameIsCommon,
     type |-> data.type,
     tier |-> data.tier,
     twitter |-> data.twitter,
     domains |-> data.domains,
     nameNormalized |-> data.name,
     twitterNormalized |->
        IF data.twitter # Null /\ Get(data.twitter) # <<>>
        THEN Some(normalizeText(Get(data.twitter)))
        ELSE Null]

\* sourceSchema: every string is accepted as id, name, twitter or domain and
\* every number as tier; the transform adds the two normalized fields
\* (data.twitter ? ... : null: an empty handle counts as absent)
sourceSchema(data) ==
    [id |-> data.id,
     name |-> data.name,
     nameIsCommon |-> data.nameIsCommon,
     type |-> data.type,
     tier |-> data.tier,
     twitter |-> data.twitter,
     domains |-> data.domains,
     nameNormalized |-> normalizeText(data.name),
     twitterNormalized |->
        IF data.twitter # Null /\ Get(data.twitter) # <<>>
        THEN Some(normalizeText(Get(data.twitter)))
        ELSE Null]

\* value.split(','): the items between the commas, item being the one begun
RECURSIVE split(_, _)
split(value, item) ==
    IF value = <<>> THEN <<item>>
    ELSE IF Head(value) = "," THEN <<item>> \o split(Tail(value), <<>>)
    ELSE split(Tail(value), Append(item, Head(value)))

\* String.prototype.trim: the text from its first to its last character
\* that is no white space
trim(text) ==
    LET kept == {i \in DOMAIN text : text[i] \notin WhiteSpace} IN
    IF kept = {} THEN <<>>
    ELSE SubSeq(text, CHOOSE i \in kept : \A j \in kept : i <= j,
                      CHOOSE i \in kept : \A j \in kept : j <= i)

\* [a-zA-Z0-9_-]
UsernameChars == WordChars \cup {"-"}

\* preprocessCommaSeparated on a string: the trimmed items, an issue (the
\* parse throws) when an item holds a character no username has
preprocessCommaSeparated(value) ==
    LET items == split(value, <<>>)
        usernames == [i \in DOMAIN items |-> trim(items[i])]
    IN  IF \E i \in DOMAIN usernames :
                \E k \in DOMAIN usernames[i] : usernames[i][k] \notin UsernameChars
        THEN Throw
        ELSE Normal(usernames)

\* settingsSchema.parse on the stored settings, whose sources are held as
\* sourceSchema leaves them: the list of ignored users is parsed, the other
\* fields are taken as they are
settingsSchema(stored) ==
    LET ignoredUsers == preprocessCommaSeparated(stored.ignoredUsers) IN
    IF ignoredUsers.type = "throw" THEN Throw
    ELSE Normal([stored EXCEPT !.ignoredUsers = ignoredUsers.value])

(***************************************************************************)
(* The matching predicates of matcher.ts.                                  *)
(***************************************************************************)
OpenBracket == Group(<< <<Chr("(")>>, <<Chr("[")>> >>)     \* (\(|\[)
CloseBracket == Group(<< <<Chr(")")>>, <<Chr("]")>> >>)    \* (\)|\])

\* ^N:|(\(|\[)N(\)|\]) when the name is common, \bN\b otherwise; flag i
isNameInTitle(titleNormalized, source) ==
    LET N == Fragment(source.nameNormalized) IN
    IF source.nameIsCommon
    THEN RegExpTest(N.ok,
            << <<Bol>> \o N.nodes \o <<Chr(":")>>,
               <<OpenBracket>> \o N.nodes \o <<CloseBracket>> >>,
            titleNormalized, TRUE)
    ELSE RegExpTest(N.ok,
            << <<WordBoundary>> \o N.nodes \o <<WordBoundary>> >>,
            titleNormalized, TRUE)

\* ^@?H:|@H\b|(\(|\[)H(\)|\]); flag i
isTwitterInTitle(titleNormalized, source) ==
    IF source.twitterNormalized = Null
    THEN Normal(FALSE)
    ELSE LET H == Fragment(Get(source.twitterNormalized)) IN
         RegExpTest(H.ok,
            << <<Bol, Opt(Chr("@"))>> \o H.nodes \o <<Chr(":")>>,
               <<Chr("@")>> \o H.nodes \o <<WordBoundary>>,
               <<OpenBracket>> \o H.nodes \o <<CloseBracket>> >>,
            titleNormalized, TRUE)

\* the pattern of isTwitterInUrl and isTwitterInLinks: ^\/H(\/|\s|$); flag i
TwitterPathPattern(H) ==
    << <<Bol, Chr("/")>> \o H.nodes \o <<Group(<< <<Chr("/")>>, <<Space>>, <<Eol>> >>)>> >>

TwitterHostnames == { <<"x", ".", "c", "o", "m">>,
                      <<"t", "w", "i", "t", "t", "e", "r", ".", "c", "o", "m">> }

isTwitterInUrl(url, source) ==
    IF source.twitterNormalized = Null
    THEN Normal(FALSE)
    ELSE IF [i \in DOMAIN url.hostname |-> toLowerCase(url.hostname[i])] \in TwitterHostnames
         THEN LET H == Fragment(Get(source.twitterNormalized)) IN
              RegExpTest(H.ok, TwitterPathPattern(H), url.pathname, TRUE)
         ELSE Normal(FALSE)

\* Array.prototype.some, given the completion of the callback on each
\* element: the first element whose callback throws or returns true decides
some(completions) ==
    LET stops == {i \in DOMAIN completions :
                    completions[i].type = "throw" \/ completions[i].value}
    IN  IF stops = {} THEN Normal(FALSE)
        ELSE LET first == CHOOSE i \in stops : \A j \in stops : i <= j IN
             IF completions[first].type = "throw" THEN Throw ELSE Normal(TRUE)

\* domain.replace(/\./g, '\\.')
RECURSIVE EscapePeriods(_)
EscapePeriods(domain) ==
    IF domain = <<>> THEN <<>>
    ELSE (IF Head(domain) = "." THEN <<"\\", ".">> ELSE <<Head(domain)>>)
         \o EscapePeriods(Tail(domain))

\* new RegExp(`^(.*\.)?${domain.replace(/\./g, '\\.')}$`).test(hostname);
\* no i flag
DomainTest(domain, hostname) ==
    LET D == Fragment(EscapePeriods(domain)) IN
    RegExpTest(D.ok,
        << <<Bol, Opt(Group(<< <<Star(AnyChar), Chr(".")>> >>))>> \o D.nodes \o <<Eol>> >>,
        hostname, FALSE)

\* source.domains?.some(...): undefined, which is falsy, without domains
isDomainInUrl(url, source) ==
    IF source.domains = Null
    THEN Normal(FALSE)
    ELSE some([d \in DOMAIN Get(source.domains) |->
                    DomainTest(Get(source.domains)[d], url.hostname)])

\* the pattern is built before the links are looked at, and no hostname is
\* compared
isTwitterInLinks(urls, source) ==
    IF source.twitterNormalized = Null
    THEN Normal(FALSE)
    ELSE LET H == Fragment(Get(source.twitterNormalized)) IN
         IF ~H.ok THEN Throw
         ELSE some([u \in DOMAIN urls |->
                      Normal(test(TwitterPathPattern(H), urls[u].pathname, TRUE))])

isDomainInLinks(urls, source) ==
    IF source.domains = Null \/ Len(Get(source.domains)) < 1
    THEN Normal(FALSE)
    ELSE some([u \in DOMAIN urls |->
                 some([d \in DOMAIN Get(source.domains) |->
                         DomainTest(Get(source.domains)[d], urls[u].hostname)])])

\* N:|(\[|\()N(\]|\)) when the name is common (no ^), \bN\b otherwise;
\* flags gi
isNameInBody(bodyNormalized, source) ==
    LET N == Fragment(source.nameNormalized) IN
    IF source.nameIsCommon
    THEN RegExpTest(N.ok,
            << N.nodes \o <<Chr(":")>>,
               <<Group(<< <<Chr("[")>>, <<Chr("(")>> >>)>> \o N.nodes
                    \o <<Group(<< <<Chr("]")>>, <<Chr(")")>> >>)>> >>,
            bodyNormalized, TRUE)
    ELSE RegExpTest(N.ok,
            << <<WordBoundary>> \o N.nodes \o <<WordBoundary>> >>,
            bodyNormalized, TRUE)

\* ^@?H:|@H\b|(\(|\[)H(\)|\]); flags gi
isTwitterInBody(bodyNormalized, source) ==
    IF source.twitterNormalized = Null
    THEN Normal(FALSE)
    ELSE LET H == Fragment(Get(source.twitterNormalized)) IN
         RegExpTest(H.ok,
            << <<Bol, Opt(Chr("@"))>> \o H.nodes \o <<Chr(":")>>,
               <<Chr("@")>> \o H.nodes \o <<WordBoundary>>,
               <<OpenBracket>> \o H.nodes \o <<CloseBracket>> >>,
            bodyNormalized, TRUE)

(***************************************************************************)
(* findSourcesInPost.  list is the Map of the scan: a sequence of          *)
(* key/value entries in insertion order.                                   *)
(***************************************************************************)
\* Map.prototype.set: a key already present keeps its place and takes the
\* new value, a new key is appended
MapSet(map, key, value) ==
    IF \E i \in DOMAIN map : map[i].key = key
    THEN [i \in DOMAIN map |->
            IF map[i].key = key THEN [key |-> key, value |-> value] ELSE map[i]]
    ELSE Append(map, [key |-> key, value |-> value])

\* the loop shared by the four findMatchesIn functions, from source k on:
\* the first predicate, else the second, decides whether the source is set;
\* a predicate that throws ends the loop
RECURSIVE findMatches(_, _, _, _, _)
findMatches(sources, k, map, first, second) ==
    IF k > Len(sources) THEN Normal(map)
    ELSE IF first[k].type = "throw" THEN Throw
    ELSE IF first[k].value
         THEN findMatches(sources, k + 1, MapSet(map, sources[k].id, sources[k]), first, second)
    ELSE IF second[k].type = "throw" THEN Throw
    ELSE IF second[k].value
         THEN findMatches(sources, k + 1, MapSet(map, sources[k].id, sources[k]), first, second)
    ELSE findMatches(sources, k + 1, map, first, second)

findMatchesInTitle(titleNormalized, sources, map) ==
    findMatches(sources, 1, map,
        [k \in DOMAIN sources |-> isNameInTitle(titleNormalized, sources[k])],
        [k \in DOMAIN sources |-> isTwitterInTitle(titleNormalized, sources[k])])

findMatchesInUrl(url, sources, map) ==
    findMatches(sources, 1, map,
        [k \in DOMAIN sources |-> isTwitterInUrl(url, sources[k])],
        [k \in DOMAIN sources |-> isDomainInUrl(url, sources[k])])

findMatchesInLinks(urls, sources, map) ==
    findMatches(sources, 1, map,
        [k \in DOMAIN sources |-> isTwitterInLinks(urls, sources[k])],
        [k \in DOMAIN sources |-> isDomainInLinks(urls, sources[k])])

findMatchesInBody(bodyNormalized, sources, map) ==
    findMatches(sources, 1, map,
        [k \in DOMAIN sources |-> isNameInBody(bodyNormalized, sources[k])],
        [k \in DOMAIN sources |-> isTwitterInBody(bodyNormalized, sources[k])])

\* a.tier ?? 6
SortKey(source) == IF source.tier = Null THEN 6 ELSE Get(source.tier)

\* Array.prototype.sort with (a, b) => (a.tier ?? 6) - (b.tier ?? 6): a stable
\* sort, so an element goes after every element whose key is not larger
RECURSIVE SortByTier(_)
SortByTier(array) ==
    IF array = <<>> THEN <<>>
    ELSE LET front == SortByTier(SubSeq(array, 1, Len(array) - 1))
             last == array[Len(array)]
             n == Cardinality({i \in DOMAIN front : SortKey(front[i]) <= SortKey(last)})
         IN  SubSeq(front, 1, n) \o <<last>> \o SubSeq(front, n + 1, Len(front))

\* Array.from(list.values())
MapValues(map) == [i \in DOMAIN map |-> map[i].value]

\* the step of findSourcesInPost after a channel: the next channel when the
\* content has what it scans, the Map as it is otherwise, the throw as it is
ThenChannel(before, scanned, after) ==
    IF before.type = "throw" THEN Throw
    ELSE IF scanned THEN after
    ELSE before

\* findSourcesInPost as a function of the content and the settings: the four
\* channels on a new Map, the sort, and null for an empty result
findSourcesInPost(postData, appSettings) ==
    LET title == findMatchesInTitle(postData.titleNormalized, appSettings.sources, <<>>)
        url == ThenChannel(title, postData.url # Null,
                    findMatchesInUrl(Get(postData.url), appSettings.sources, title.value))
        links == ThenChannel(url, postData.links # Null,
                    findMatchesInLinks(Get(postData.links), appSettings.sources, url.value))
        body == ThenChannel(links,
                    /\ postData.bodyNormalized # Null
                    /\ Get(postData.bodyNormalized) # <<>>
                    /\ appSettings.analyzePostBody,
                    findMatchesInBody(Get(postData.bodyNormalized), appSettings.sources,
                                      links.value))
    IN  IF body.type = "throw" THEN Throw
        ELSE LET sorted == SortByTier(MapValues(body.value)) IN
             Normal(IF Len(sorted) > 0 THEN Some(sorted) ELSE Null)

(***************************************************************************)
(* Settings and content construction (helpers.ts).                         *)
(***************************************************************************)
\* getAllSettings: the stored settings through the schema
getAllSettings(stored) == settingsSchema(stored)

\* isIgnoredUser without the toLowerCase
isIgnoredUser_CaseSensitive(username, appSettings) ==
    \E i \in DOMAIN appSettings.ignoredUsers : appSettings.ignoredUsers[i] = username

\* isIgnoredUser: the name is one of the ignored users, whatever the case
isIgnoredUser(username, appSettings) ==
    \E i \in DOMAIN appSettings.ignoredUsers :
        [k \in DOMAIN appSettings.ignoredUsers[i] |->
            toLowerCase(appSettings.ignoredUsers[i][k])]
        = [k \in DOMAIN username |-> toLowerCase(username[k])]

Url(hostname, pathname) == [hostname |-> hostname, pathname |-> pathname]

\* ['v.redd.it', 'i.redd.it', 'reddit.com', 'www.reddit.com']
OwnHostnames ==
    { <<"v", ".", "r", "e", "d", "d", ".", "i", "t">>,
      <<"i", ".", "r", "e", "d", "d", ".", "i", "t">>,
      <<"r", "e", "d", "d", "i", "t", ".", "c", "o", "m">>,
      <<"w", "w", "w", ".", "r", "e", "d", "d", "i", "t", ".", "c", "o", "m">> }

\* the base the URLs are resolved against: https://www.reddit.com
BaseHostname == <<"w", "w", "w", ".", "r", "e", "d", "d", "i", "t", ".", "c", "o", "m">>

\* a character no hostname may hold: new URL throws a TypeError on it
ForbiddenHostChars == {" "}

\* new URL(link, 'https://www.reddit.com'): a link without a host (a path) is
\* resolved against the base, a hostname is put in lower case and otherwise
\* kept, 'www.' included
NewURL(link) ==
    IF link.hostname = <<>>
    THEN Normal(Url(BaseHostname, link.pathname))
    ELSE IF \E i \in DOMAIN link.hostname : link.hostname[i] \in ForbiddenHostChars
    THEN Throw
    ELSE Normal(Url([i \in DOMAIN link.hostname |-> toLowerCase(link.hostname[i])],
                    link.pathname))

\* getPostLinks, given the links linkify finds in the body: a link that is no
\* URL and the platform's own are dropped, and no link at all is null
getPostLinks(found) ==
    LET kept == SelectSeq(found, LAMBDA link :
                    /\ NewURL(link).type = "normal"
                    /\ NewURL(link).value.hostname \notin OwnHostnames)
        links == [i \in DOMAIN kept |-> NewURL(kept[i]).value]
    IN  IF Len(links) > 0 THEN Some(links) ELSE Null

StartsWithWww(hostname) ==
    Len(hostname) >= 4 /\ SubSeq(hostname, 1, 4) = <<"w", "w", "w", ".">>

\* hostname.replace(/^www\./, '')
StripWww(hostname) ==
    IF StartsWithWww(hostname) THEN SubSeq(hostname, 5, Len(hostname)) ELSE hostname

\* processPost with the 'www.' of the post's url taken off
processPost_StripWww(raw) ==
    LET url == NewURL(raw.url) IN
    IF url.type = "throw" THEN Throw
    ELSE Normal(
        [id |-> raw.id,
         subredditName |-> raw.subredditName,
         titleNormalized |-> normalizeText(raw.title),
         bodyNormalized |->
            IF raw.body # Null /\ Len(Get(raw.body)) > 0
            THEN Some(normalizeText(Get(raw.body))) ELSE Null,
         url |-> IF url.value.hostname \notin OwnHostnames
                 THEN Some(Url(StripWww(url.value.hostname), url.value.pathname))
                 ELSE Null,
         links |->
            IF raw.body # Null /\ Len(Get(raw.body)) > 0
            THEN getPostLinks(raw.found) ELSE Null])

\* processPost; raw.found stands for linkify.match(raw.body).  The URL of the
\* post is built outside any try: a post whose url is no URL makes it throw
processPost(raw) ==
    LET url == NewURL(raw.url) IN
    IF url.type = "throw" THEN Throw
    ELSE Normal(
        [id |-> raw.id,
         subredditName |-> raw.subredditName,
         titleNormalized |-> normalizeText(raw.title),
         bodyNormalized |->
            IF raw.body # Null /\ Len(Get(raw.body)) > 0
            THEN Some(normalizeText(Get(raw.body))) ELSE Null,
         url |-> IF url.value.hostname \notin OwnHostnames THEN Some(url.value) ELSE Null,
         links |->
            IF raw.body # Null /\ Len(Get(raw.body)) > 0
            THEN getPostLinks(raw.found) ELSE Null])

(***************************************************************************)
(* The comment and the flair (comment.ts).  A platform call is a record of *)
(* its name, its argument and whether it resolved (ok) or rejected; fails  *)
(* is the set of the platform calls that reject while an event is handled, *)
(* handed to the operators as rejecting.                                   *)
(***************************************************************************)
PlatformCall(call, arg, rejecting) == [call |-> call, arg |-> arg, ok |-> call \notin rejecting]

\* a tier in a condition: null and 0 are falsy
Truthy(tier) == tier # Null /\ Get(tier) # 0

\* reliabilityLevel: the words for the tiers 1..5, a throw for any other value
reliabilityLevel(tier) ==
    CASE tier = 1 -> Normal("very reliable")
      [] tier = 2 -> Normal("reliable")
      [] tier = 3 -> Normal("unreliable")
      [] tier = 4 -> Normal("very unreliable")
      [] tier = 5 -> Normal("extremely unrialable")
      [] OTHER -> Throw

\* getSourceLine: 'Tier n: name - level' for a tiered source, 'Type: name'
\* otherwise; the name comes with the handle, else with the first domain
getSourceLine(source) ==
    LET sourceName ==
            [name |-> source.name,
             twitter |-> IF source.twitter # Null /\ Get(source.twitter) # <<>>
                         THEN source.twitter ELSE Null,
             domain |-> IF source.domains # Null /\ Len(Get(source.domains)) > 0
                        THEN Some(Get(source.domains)[1]) ELSE Null]
    IN  IF Truthy(source.tier)
        THEN LET level == reliabilityLevel(Get(source.tier)) IN
             IF level.type = "throw" THEN Throw
             ELSE Normal([head |-> "Tier", tier |-> source.tier,
                          sourceName |-> sourceName, level |-> level.value])
        ELSE Normal([head |-> source.type, tier |-> Null,
                     sourceName |-> sourceName, level |-> ""])

\* shouldFlairPost: not for a post whose url is reddit's, not when the first
\* source has no tier
shouldFlairPost(postData, sources) ==
    IF postData.url # Null
       /\ Get(postData.url).hostname \in
            { <<"r", "e", "d", "d", "i", "t", ".", "c", "o", "m">>, BaseHostname }
    THEN FALSE
    ELSE IF ~(Len(sources) >= 1 /\ Truthy(sources[1].tier)) THEN FALSE
    ELSE TRUE

\* flairPost: the calls it makes; 'Tier n' after the first source, 'Aggregator'
\* for an untiered aggregator, no call otherwise
flairPost(postId, sources, subredditName, rejecting) ==
    IF Truthy(sources[1].tier)
    THEN <<PlatformCall("setPostFlair",
                        <<postId, subredditName, "Tier", Get(sources[1].tier)>>, rejecting)>>
    ELSE IF sources[1].type = "aggregator"
    THEN <<PlatformCall("setPostFlair", <<postId, subredditName, "Aggregator">>, rejecting)>>
    ELSE <<>>

\* submitComment with the flair set after the comment is submitted
submitComment_FlairLast(postData, sources, rejecting) ==
    LET flair == IF shouldFlairPost(postData, sources)
                 THEN flairPost(postData.id, sources, postData.subredditName, rejecting)
                 ELSE <<>>
        lines == [i \in DOMAIN sources |-> getSourceLine(sources[i])]
        warningForUnreliable ==
            \E i \in DOMAIN sources :
                Truthy(sources[i].tier) /\ Get(sources[i].tier) >= 3
        comment ==
            PlatformCall("submitComment",
                         <<postData.id, [i \in DOMAIN lines |-> lines[i].value],
                           warningForUnreliable>>, rejecting)
    IN  IF \E i \in DOMAIN lines : lines[i].type = "throw"
        THEN [type |-> "throw", calls |-> <<>>]
        ELSE IF ~comment.ok
        THEN [type |-> "reject", calls |-> <<comment>>]
        ELSE IF \E i \in DOMAIN flair : ~flair[i].ok
        THEN [type |-> "reject", calls |-> <<comment>> \o flair]
        ELSE [type |-> IF {"distinguish", "lock"} \cap rejecting = {}
                       THEN "normal" ELSE "reject",
              calls |-> <<comment>> \o flair \o
                        <<PlatformCall("distinguish", <<postData.id>>, rejecting),
                          PlatformCall("lock", <<postData.id>>, rejecting)>>]

\* submitComment: the calls it makes and how it completes: normally, with a
\* throw of its own code, or with the rejection of a platform call.  The
\* flair is set before the comment is composed, a source line that throws
\* ends the call before the comment is submitted, and distinguish and lock
\* are both issued (Promise.all) once the comment is there
submitComment(postData, sources, rejecting) ==
    LET flair == IF shouldFlairPost(postData, sources)
                 THEN flairPost(postData.id, sources, postData.subredditName, rejecting)
                 ELSE <<>>
        lines == [i \in DOMAIN sources |-> getSourceLine(sources[i])]
        warningForUnreliable ==
            \E i \in DOMAIN sources :
                Truthy(sources[i].tier) /\ Get(sources[i].tier) >= 3
        comment ==
            PlatformCall("submitComment",
                         <<postData.id, [i \in DOMAIN lines |-> lines[i].value],
                           warningForUnreliable>>, rejecting)
    IN  IF \E i \in DOMAIN flair : ~flair[i].ok
        THEN [type |-> "reject", calls |-> flair]
        ELSE IF \E i \in DOMAIN lines : lines[i].type = "throw"
        THEN [type |-> "throw", calls |-> flair]
        ELSE IF ~comment.ok
        THEN [type |-> "reject", calls |-> flair \o <<comment>>]
        ELSE [type |-> IF {"distinguish", "lock"} \cap rejecting = {}
                       THEN "normal" ELSE "reject",
              calls |-> flair \o <<comment>> \o
                        <<PlatformCall("distinguish", <<postData.id>>, rejecting),
                          PlatformCall("lock", <<postData.id>>, rejecting)>>]

\* trySendPostErrorModmail: the settings are loaded again, outside any try,
\* and the report goes to the subreddit they name, if they name one
trySendPostErrorModmail(stored, postId, rejecting) ==
    LET loaded == getAllSettings(stored) IN
    IF loaded.type = "throw" THEN [type |-> "throw", calls |-> <<>>]
    ELSE IF loaded.value.errorReportSubredditName # <<>>
    THEN [type |-> IF "sendPrivateMessage" \in rejecting THEN "reject" ELSE "normal",
          calls |-> <<PlatformCall("sendPrivateMessage",
                                   <<loaded.value.errorReportSubredditName, postId>>,
                                   rejecting)>>]
    ELSE [type |-> "normal", calls |-> <<>>]

(***************************************************************************)
(* The registries and posts the scans are run on.                          *)
(***************************************************************************)
\* the largest number of sources in a registry
MaxSources == 2

Raw(id, name, nameIsCommon, type, tier, twitter, domains) ==
    [id |-> id, name |-> name, nameIsCommon |-> nameIsCommon, type |-> type,
     tier |-> tier, twitter |-> twitter, domains |-> domains]

BDotCo == <<"b", ".", "c", "o">>
XDotCom == <<"x", ".", "c", "o", "m">>

\* registry entries the schema accepts: two of them share an id, one has a
\* tier above 5, one a name that is no valid pattern, one an empty handle
RawSources ==
    { Raw("1", <<"a">>, FALSE, "journalist", Some(1), Some(<<>>), Null),
      Raw("2", <<"B">>, TRUE, "aggregator", Null, Some(<<"a", "b">>), Null),
      Raw("1", <<"b">>, FALSE, "media", Some(2), Null, Some(<<BDotCo>>)),
      Raw("3", <<"x">>, FALSE, "media", Some(7), Null, Some(<<BDotCo>>)),
      Raw("4", <<"a", "(">>, FALSE, "media", Some(3), Null, Null),
      Raw("5", <<"c">>, FALSE, "journalist", Null, Some(<<"A", "b">>), Null) }

Sources == {sourceSchema(data) : data \in RawSources}

RECURSIVE SeqsUpTo(_, _)
SeqsUpTo(S, n) ==
    IF n = 0 THEN {<<>>}
    ELSE LET shorter == SeqsUpTo(S, n - 1) IN
         shorter \cup {Append(q, x) : q \in {r \in shorter : Len(r) = n - 1}, x \in S}

Registries == SeqsUpTo(Sources, MaxSources)

RawTitles ==
    { <<"A_acute", " ", "b">>, <<"[", "b", "]">>, <<"@", "a", "b">>, <<"e">> }

RawUrls ==
    { Url(<<"w", "w", "w", ".", "r", "e", "d", "d", "i", "t", ".", "c", "o", "m">>, <<"/", "r">>),
      Url(XDotCom, <<"/", "A", "b">>),
      Url(BDotCo, <<"/">>) }

\* a body with the URLs linkify finds in it
RawBodies ==
    { [body |-> Null, found |-> <<>>],
      [body |-> Some(<<"e", " ", "B", ":">>), found |-> <<>>],
      [body |-> Some(XDotCom \o <<"/", "a", "b">>), found |-> <<Url(XDotCom, <<"/", "a", "b">>)>>],
      [body |-> Some(<<"e", " ">> \o BDotCo), found |-> <<Url(BDotCo, <<"/">>)>>] }

\* the post of the event and its subreddit
PostId == "t3_1"
SubredditName == "s1"

RawPosts ==
    {[id |-> PostId, subredditName |-> SubredditName, authorName |-> <<"a">>,
      title |-> t, url |-> u, body |-> b.body, found |-> b.found] :
        t \in RawTitles, u \in RawUrls, b \in RawBodies}

NoPost ==
    [id |-> "", subredditName |-> "", titleNormalized |-> <<>>, bodyNormalized |-> Null,
     url |-> Null, links |-> Null]
\* no post fetched yet
NoFetched ==
    [id |-> "", subredditName |-> "", authorName |-> <<>>, title |-> <<>>,
     url |-> Url(<<>>, <<>>), body |-> Null, found |-> <<>>]

\* a PostSubmit event, by the fields the handler reads; a field the event
\* lacks is Null (an event without its post is one without a post id)
Event(id, crosspostParentId, subredditName, authorName) ==
    [post |-> [id |-> id, crosspostParentId |-> crosspostParentId],
     subreddit |-> [name |-> subredditName],
     author |-> [name |-> authorName]]

\* no event handled yet
NoEvent == Event(Null, Null, Null, Null)

\* the list of ignored users of the scans
IgnoredUsers == <<"X", "b">>

\* the events of the scans: a post of its own, by an author not on the list
Events == {Event(Some(PostId), Null, Some(SubredditName), Some(<<"a">>))}

\* stored settings: a registry, the toggle, the list of ignored users as it
\* is typed in, the subreddit for the error reports
Settings(registries, toggles, ignored, reportTo) ==
    [sources : registries, analyzePostBody : toggles,
     ignoredUsers : ignored, errorReportSubredditName : reportTo]

Pending == [type |-> "pending", value |-> FALSE]
\* the completions of the direct calls of the predicates: none yet
NoCalls ==
    [isNameInTitle |-> Pending, isNameInBody |-> Pending,
     isTwitterInTitle |-> Pending, isTwitterInBody |-> Pending,
     isTwitterInUrl |-> Pending, isDomainInUrl |-> Pending,
     isTwitterInLinks |-> Pending, isDomainInLinks |-> Pending,
     findSourcesInPost |-> Pending]

(***************************************************************************)
(* The PostSubmit handler (main.ts), a step for the part up to the scan, a *)
(* step for each channel of findSourcesInPost, a step for submitComment    *)
(* and a step for the catch.  pc is where the handler is: in one of the    *)
(* steps, at one of its returns ("ignored", "returned" with no source,     *)
(* "commented", "completed" after the catch), at a throw inside the try    *)
(* (Thrown), or "rejected" when an exception left the handler.  Every      *)
(* exception is taken to be an Error.                                      *)
(***************************************************************************)
InitWith(stored) ==
    /\ settings \in stored
    /\ fails = {}
    /\ event = NoEvent
    /\ fetched = NoFetched
    /\ post = NoPost
    /\ pc = "idle"
    /\ list = <<>>
    /\ result = Null
    /\ calls = <<>>
    /\ ret = NoCalls

Init == InitWith(Settings(Registries, BOOLEAN, {IgnoredUsers}, {<<>>}))

\* the places of the handler where something was thrown inside the try
Thrown == {"eventThrew", "callFailed", "caught", "settingsThrew", "threw", "commentThrew"}

\* the handler of the event before is over: it returned, or an exception
\* left it
HandlerDone ==
    \/ pc \in {"idle", "ignored", "commented", "completed", "rejected"}
    \/ pc = "returned" /\ result = Null

\* the post of the event itself, crosspost or not
PostIdToFetch_Submitted(e) == Get(e.post.id)

\* the id the handler fetches: the parent's for a crosspost, the post's own
\* otherwise
PostIdToFetch(e) ==
    IF e.post.crosspostParentId # Null
    THEN Get(e.post.crosspostParentId)
    ELSE Get(e.post.id)

\* the handler with a Map that outlives the call: the entries of the scan
\* before are still in it
onEvent_KeepMap(e, rejecting, answer) ==
    LET postData == processPost(answer)
        loaded == getAllSettings(settings)
    IN
    /\ event' = e
    /\ fails' = rejecting
    /\ list' = list
    /\ result' = Null
    /\ IF e.post.id = Null \/ e.subreddit.name = Null \/ e.author.name = Null
       THEN /\ calls' = <<>>
            /\ fetched' = NoFetched /\ post' = NoPost /\ pc' = "eventThrew"
       ELSE /\ calls' = <<PlatformCall("getPostById", <<PostIdToFetch(e)>>, rejecting)>>
            /\ IF "getPostById" \in rejecting
               THEN fetched' = NoFetched /\ post' = NoPost /\ pc' = "callFailed"
               ELSE /\ answer.id = PostIdToFetch(e)
                    /\ fetched' = answer
                    /\ IF postData.type = "throw"
                       THEN post' = NoPost /\ pc' = "caught"
                       ELSE /\ post' = postData.value
                            /\ pc' = IF loaded.type = "throw" THEN "settingsThrew"
                                     ELSE IF isIgnoredUser(Get(e.author.name), loaded.value)
                                     THEN "ignored"
                                     ELSE "title"

\* the handler on the event e up to the scan, where the platform calls of
\* rejecting reject and answer is the post getPostById gives otherwise, the
\* post of the id asked for.  An event that lacks a field throws; the post
\* fetched is the parent's for a crosspost;
\* processPost builds the content; the settings are loaded; the handler
\* returns for an ignored author; findSourcesInPost starts with an empty Map
onEvent(e, rejecting, answer) ==
    LET postData == processPost(answer)
        loaded == getAllSettings(settings)
    IN
    /\ event' = e
    /\ fails' = rejecting
    /\ list' = <<>>
    /\ result' = Null
    /\ IF e.post.id = Null \/ e.subreddit.name = Null \/ e.author.name = Null
       THEN /\ calls' = <<>>
            /\ fetched' = NoFetched /\ post' = NoPost /\ pc' = "eventThrew"
       ELSE /\ calls' = <<PlatformCall("getPostById", <<PostIdToFetch(e)>>, rejecting)>>
            /\ IF "getPostById" \in rejecting
               THEN fetched' = NoFetched /\ post' = NoPost /\ pc' = "callFailed"
               ELSE /\ answer.id = PostIdToFetch(e)
                    /\ fetched' = answer
                    /\ IF postData.type = "throw"
                       THEN post' = NoPost /\ pc' = "caught"
                       ELSE /\ post' = postData.value
                            /\ pc' = IF loaded.type = "throw" THEN "settingsThrew"
                                     ELSE IF isIgnoredUser(Get(e.author.name), loaded.value)
                                     THEN "ignored"
                                     ELSE "title"

\* a PostSubmit event: the post is fetched and handled, no platform call
\* rejecting
PostSubmit ==
    /\ HandlerDone
    /\ \E e \in Events, answer \in RawPosts : onEvent(e, {}, answer)
    /\ UNCHANGED <<settings, ret>>

\* the step of a channel: the Map it leaves, or the throw
Channel(completion, next) ==
    /\ IF completion.type = "throw"
       THEN pc' = "threw" /\ list' = list
       ELSE pc' = next /\ list' = completion.value
    /\ UNCHANGED <<settings, fails, event, fetched, post, result, calls, ret>>

ScanTitle ==
    /\ pc = "title"
    /\ Channel(findMatchesInTitle(post.titleNormalized, settings.sources, list), "url")

ScanUrl ==
    /\ pc = "url"
    /\ Channel(IF post.url # Null
               THEN findMatchesInUrl(Get(post.url), settings.sources, list)
               ELSE Normal(list), "links")

ScanLinks ==
    /\ pc = "links"
    /\ Channel(IF post.links # Null
               THEN findMatchesInLinks(Get(post.links), settings.sources, list)
               ELSE Normal(list), "body")

\* the body channel whatever the analyzePostBody setting
ScanBody_IgnoreToggle ==
    /\ pc = "body"
    /\ Channel(IF post.bodyNormalized # Null /\ Get(post.bodyNormalized) # <<>>
               THEN findMatchesInBody(Get(post.bodyNormalized), settings.sources, list)
               ELSE Normal(list), "sort")

ScanBody ==
    /\ pc = "body"
    /\ Channel(IF post.bodyNormalized # Null /\ Get(post.bodyNormalized) # <<>>
                  /\ settings.analyzePostBody
               THEN findMatchesInBody(Get(post.bodyNormalized), settings.sources, list)
               ELSE Normal(list), "sort")

\* Return without the length test: an empty array where null is due
Return_NeverNull ==
    /\ pc = "sort"
    /\ result' = Some(SortByTier(MapValues(list)))
    /\ pc' = "returned"
    /\ UNCHANGED <<settings, fails, event, fetched, post, list, calls, ret>>

\* the sort and the return: null for an empty result
Return ==
    /\ pc = "sort"
    /\ LET sorted == SortByTier(MapValues(list)) IN
       result' = IF Len(sorted) > 0 THEN Some(sorted) ELSE Null
    /\ pc' = "returned"
    /\ UNCHANGED <<settings, fails, event, fetched, post, list, calls, ret>>

\* the handler after findSourcesInPost returned sources: submitComment
SubmitComment ==
    /\ pc = "returned" /\ result # Null
    /\ LET completion == submitComment(post, Get(result), fails) IN
       /\ calls' = calls \o completion.calls
       /\ pc' = CASE completion.type = "throw" -> "commentThrew"
                  [] completion.type = "reject" -> "callFailed"
                  [] OTHER -> "commented"
    /\ UNCHANGED <<settings, fails, event, fetched, post, list, result, ret>>

\* the catch of the handler: a report for an event with a post id, sent by
\* trySendPostErrorModmail, which is awaited outside any try; what it throws
\* leaves the handler
Catch ==
    /\ pc \in Thrown
    /\ IF event.post.id = Null
       THEN pc' = "completed" /\ calls' = calls
       ELSE LET completion == trySendPostErrorModmail(settings, Get(event.post.id), fails) IN
            /\ calls' = calls \o completion.calls
            /\ pc' = IF completion.type = "normal" THEN "completed" ELSE "rejected"
    /\ UNCHANGED <<settings, fails, event, fetched, post, list, result, ret>>

Next ==
    \/ PostSubmit
    \/ ScanTitle \/ ScanUrl \/ ScanLinks \/ ScanBody \/ Return \/ SubmitComment
    \/ Catch

Spec == Init /\ [][Next]_vars

(***************************************************************************)
(* Repeated scans: the same handler on a few posts, where the content and  *)
(* the result of the first scan that returned are kept to compare a later  *)
(* scan of the same content with.                                          *)
(***************************************************************************)
\* the posts without a body
RawPostsTwice == {raw \in RawPosts : raw.body = Null}

\* findSourcesInPost has returned in the handler that is over
ScanReturned ==
    \/ pc \in {"returned", "commented"}
    \/ pc \in {"completed", "rejected"} /\ result # Null

PostSubmitTwice ==
    /\ HandlerDone
    /\ \E e \in Events, answer \in RawPostsTwice : onEvent(e, {}, answer)
    /\ ret' = IF ScanReturned /\ ret.findSourcesInPost.type = "pending"
              THEN [ret EXCEPT !.findSourcesInPost =
                        [type |-> "normal", value |-> [post |-> post, result |-> result]]]
              ELSE ret
    /\ UNCHANGED settings

NextTwice ==
    \/ PostSubmitTwice
    \/ ScanTitle \/ ScanUrl \/ ScanLinks \/ ScanBody \/ Return \/ SubmitComment
    \/ Catch

SpecTwice == Init /\ [][NextTwice]_vars

(***************************************************************************)
(* Scans on registries of up to three sources with equal sort keys: two of *)
(* tier 1, two without a tier, two that share an id, matched by different  *)
(* channels.                                                               *)
(***************************************************************************)
OrderRawSources ==
    { Raw("1", <<"a">>, FALSE, "journalist", Some(1), Null, Null),
      Raw("2", <<"b">>, FALSE, "media", Null, Null, Null),
      Raw("1", <<"x">>, FALSE, "media", Null, Null, Some(<<BDotCo>>)),
      Raw("3", <<"c">>, FALSE, "journalist", Some(1), Some(<<"A", "b">>), Null) }

OrderRegistries ==
    LET parsed == {sourceSchema(data) : data \in OrderRawSources} IN
    {<<s>> : s \in parsed}
    \cup {<<s, t>> : s \in parsed, t \in parsed}
    \cup {<<s, t, u>> : s \in parsed, t \in parsed, u \in parsed}

\* the posts of the scans, and one whose url is no URL
OrderPosts ==
    {raw \in RawPosts : raw.title \in { <<"A_acute", " ", "b">>, <<"@", "a", "b">> }}
    \cup {[id |-> PostId, subredditName |-> SubredditName, authorName |-> <<"a">>,
           title |-> <<"e">>, url |-> Url(<<"b", " ", "c">>, <<"/">>),
           body |-> Null, found |-> <<>>]}

InitOrder == InitWith(Settings(OrderRegistries, {TRUE}, {IgnoredUsers}, {<<>>}))

PostSubmitOrder ==
    /\ HandlerDone
    /\ \E e \in Events, answer \in OrderPosts : onEvent(e, {}, answer)
    /\ UNCHANGED <<settings, ret>>

NextOrder ==
    \/ PostSubmitOrder
    \/ ScanTitle \/ ScanUrl \/ ScanLinks \/ ScanBody \/ Return \/ SubmitComment
    \/ Catch

SpecOrder == InitOrder /\ [][NextOrder]_vars

(***************************************************************************)
(* The handler on one event of any kind: with or without its fields, a     *)
(* crosspost or not, by an ignored author or not, on settings that parse   *)
(* or not, with any of the platform calls rejecting.  What the handler     *)
(* does for an event does not depend on the events before it, so the first *)
(* event stands for all.                                                   *)
(***************************************************************************)
PlatformCalls ==
    {"getPostById", "setPostFlair", "submitComment", "distinguish", "lock",
     "sendPrivateMessage"}

\* the stored settings: a registry of one source (a tiered one, untiered
\* ones, one whose tier the renderer throws on, one whose name is no
\* pattern); ignoredUsers as typed in (one user, two users, and a text that
\* is no list of usernames); a subreddit for the error reports or none
HandlerSettings ==
    Settings({registry \in Registries : Len(registry) = 1}, {FALSE},
             { <<"X", "b">>, <<"a", ",", " ", "X", "b">>, <<"a", " ", "b">> },
             {<<>>, <<"b">>})

HandlerEvents ==
    {Event(id, parent, subreddit, author) :
        id \in {Null, Some(PostId)},
        parent \in {Null, Some("t3_2")},
        subreddit \in {Null, Some(SubredditName)},
        author \in {Null, Some(<<"x", "B">>), Some(<<"e">>)}}

\* the posts of the platform: the submitted one and the parent of a
\* crosspost, of another subreddit and by another author, each with a
\* title and a url that name sources or not; a self-post, a link post, and
\* a url that is no URL
HandlerPosts ==
    {[id |-> p[1], subredditName |-> p[2], authorName |-> p[3],
      title |-> t, url |-> u, body |-> Null, found |-> <<>>] :
        p \in { <<PostId, SubredditName, <<"e">> >>,
                <<"t3_2", "s2", <<"x", "B">> >> },
        t \in { <<"A_acute", " ", "b">>, <<"e">> },
        u \in { Url(BaseHostname, <<"/", "r">>), Url(BDotCo, <<"/">>),
                Url(<<"b", " ", "c">>, <<"/">>) }}

InitHandler == InitWith(HandlerSettings)

PostSubmitHandler ==
    /\ pc = "idle"
    /\ \E e \in HandlerEvents, rejecting \in SUBSET PlatformCalls, answer \in HandlerPosts :
            onEvent(e, rejecting, answer)
    /\ UNCHANGED <<settings, ret>>

NextHandler ==
    \/ PostSubmitHandler
    \/ ScanTitle \/ ScanUrl \/ ScanLinks \/ ScanBody \/ Return \/ SubmitComment
    \/ Catch

SpecHandler == InitHandler /\ [][NextHandler]_vars

(***************************************************************************)
(* Direct calls of the predicates (matcher.ts exports them as __test__),   *)
(* on one source and every text up to a length.                            *)
(***************************************************************************)
\* the longest text, and the longest path after its leading slash
MaxTextLen == 4
MaxPathLen == 4

\* the strings over S of length 1..n
Texts(S, n) == SeqsUpTo(S, n) \ {<<>>}

NameChars == {"a", "b", ".", "+", ":", "[", "]", "(", ")"}
HandleChars == {"a", "b", "@", ".", "+", ":", "[", "]", "(", ")"}
PathChars == {"a", "b", "A", ".", "+", "/"}

\* names and handles the schema accepts: plain ones, one with a wildcard,
\* one with a quantifier, one that is no valid pattern
RawNames == { <<"a">>, <<"A", "b">>, <<"a", ".">>, <<"a", "+">>, <<"a", "(">> }
RawHandles == { Null, Some(<<"a">>), Some(<<"A", "b">>), Some(<<"a", ".">>),
                Some(<<"a", "+">>), Some(<<"a", "(">>) }

NameSources ==
    {sourceSchema(Raw("1", n, c, "media", Null, Null, Null)) :
        n \in RawNames, c \in BOOLEAN}

HandleSources ==
    {sourceSchema(Raw("1", <<"e">>, FALSE, "journalist", Null, h, Null)) :
        h \in RawHandles}

UrlHostnames ==
    { XDotCom, <<"t", "w", "i", "t", "t", "e", "r", ".", "c", "o", "m">>,
      <<"a", "x", ".", "c", "o", "m">>, BDotCo }

Urls == {Url(h, <<"/">> \o p) : h \in UrlHostnames, p \in SeqsUpTo(PathChars, MaxPathLen)}

\* a content whose title and body are the same normalized text
TextPost(text) ==
    [NoPost EXCEPT !.titleNormalized = text, !.bodyNormalized = Some(text)]

InitCalls(sources, posts) ==
    /\ settings \in Settings({<<s>> : s \in sources}, {TRUE}, {IgnoredUsers}, {<<>>})
    /\ fails = {}
    /\ post \in posts
    /\ event = NoEvent
    /\ fetched = NoFetched
    /\ pc = "call"
    /\ list = <<>>
    /\ result = Null
    /\ calls = <<>>
    /\ ret = NoCalls

InitName == InitCalls(NameSources, {TextPost(t) : t \in Texts(NameChars, MaxTextLen)})

InitTwitter == InitCalls(HandleSources, {TextPost(t) : t \in Texts(HandleChars, MaxTextLen)})

InitUrl ==
    InitCalls(HandleSources,
              {[NoPost EXCEPT !.url = Some(u)] : u \in Urls})

Source1 == settings.sources[1]

CallIsNameInTitle ==
    /\ pc = "call" /\ ret.isNameInTitle.type = "pending"
    /\ ret' = [ret EXCEPT !.isNameInTitle = isNameInTitle(post.titleNormalized, Source1)]
    /\ UNCHANGED <<settings, fails, event, fetched, post, pc, list, result, calls>>

CallIsNameInBody ==
    /\ pc = "call" /\ ret.isNameInBody.type = "pending"
    /\ ret' = [ret EXCEPT !.isNameInBody = isNameInBody(Get(post.bodyNormalized), Source1)]
    /\ UNCHANGED <<settings, fails, event, fetched, post, pc, list, result, calls>>

CallIsTwitterInTitle ==
    /\ pc = "call" /\ ret.isTwitterInTitle.type = "pending"
    /\ ret' = [ret EXCEPT !.isTwitterInTitle = isTwitterInTitle(post.titleNormalized, Source1)]
    /\ UNCHANGED <<settings, fails, event, fetched, post, pc, list, result, calls>>

CallIsTwitterInBody ==
    /\ pc = "call" /\ ret.isTwitterInBody.type = "pending"
    /\ ret' = [ret EXCEPT !.isTwitterInBody = isTwitterInBody(Get(post.bodyNormalized), Source1)]
    /\ UNCHANGED <<settings, fails, event, fetched, post, pc, list, result, calls>>

CallIsTwitterInUrl ==
    /\ pc = "call" /\ ret.isTwitterInUrl.type = "pending"
    /\ ret' = [ret EXCEPT !.isTwitterInUrl = isTwitterInUrl(Get(post.url), Source1)]
    /\ UNCHANGED <<settings, fails, event, fetched, post, pc, list, result, calls>>

NextName == CallIsNameInTitle \/ CallIsNameInBody
NextTwitter == CallIsTwitterInTitle \/ CallIsTwitterInBody
NextUrl == CallIsTwitterInUrl

SpecName == InitName /\ [][NextName]_vars
SpecTwitter == InitTwitter /\ [][NextTwitter]_vars
SpecUrl == InitUrl /\ [][NextUrl]_vars

\* the longest hostname
MaxHostLen == 6

HostChars == {"a", "b", "."}

\* hostnames as the URL constructor gives them: no empty label before a dot
Hostnames ==
    {h \in Texts(HostChars, MaxHostLen) :
        /\ h[1] # "."
        /\ \A i \in 1..(Len(h) - 1) : ~(h[i] = "." /\ h[i + 1] = ".")}

ADotB == <<"a", ".", "b">>

\* domain lists the schema accepts: none, an empty one, one and two
\* domains, a domain with a quantifier in it, one that is no valid pattern
RawDomains ==
    { Null, Some(<<>>), Some(<<ADotB>>), Some(<< <<"b", ".", "a">>, ADotB >>),
      Some(<< <<"a", "+", ".", "b">> >>), Some(<< <<"a", "(", ".", "b">> >>) }

DomainSources ==
    {sourceSchema(Raw("1", <<"e">>, FALSE, "media", Null, Null, d)) : d \in RawDomains}

InitDomain ==
    InitCalls(DomainSources,
              {[NoPost EXCEPT !.url = Some(Url(h, <<"/">>))] : h \in Hostnames})

CallIsDomainInUrl ==
    /\ pc = "call" /\ ret.isDomainInUrl.type = "pending"
    /\ ret' = [ret EXCEPT !.isDomainInUrl = isDomainInUrl(Get(post.url), Source1)]
    /\ UNCHANGED <<settings, fails, event, fetched, post, pc, list, result, calls>>

NextDomain == CallIsDomainInUrl

SpecDomain == InitDomain /\ [][NextDomain]_vars

\* the largest number of links in a list
MaxLinks == 2

WwwBDotCo == <<"w", "w", "w", ".">> \o BDotCo

LinkUrls ==
    {Url(h, p) : h \in {XDotCom, BDotCo, WwwBDotCo},
                 p \in { <<"/">>, <<"/", "a", "b">>, <<"/", "a", "b", "/", "e">>,
                         <<"/", "a", "b", "e">> }}

\* post.links is never an empty list
LinkLists == SeqsUpTo(LinkUrls, MaxLinks) \ {<<>>}

LinkSources ==
    {sourceSchema(Raw("1", <<"e">>, FALSE, "media", Null, h, d)) :
        h \in {Null, Some(<<"A", "b">>), Some(<<"a", "(">>)},
        d \in {Null, Some(<<>>), Some(<<BDotCo>>)}}

InitLinks ==
    InitCalls(LinkSources, {[NoPost EXCEPT !.links = Some(urls)] : urls \in LinkLists})

CallIsTwitterInLinks ==
    /\ pc = "call" /\ ret.isTwitterInLinks.type = "pending"
    /\ ret' = [ret EXCEPT !.isTwitterInLinks = isTwitterInLinks(Get(post.links), Source1)]
    /\ UNCHANGED <<settings, fails, event, fetched, post, pc, list, result, calls>>

CallIsDomainInLinks ==
    /\ pc = "call" /\ ret.isDomainInLinks.type = "pending"
    /\ ret' = [ret EXCEPT !.isDomainInLinks = isDomainInLinks(Get(post.links), Source1)]
    /\ UNCHANGED <<settings, fails, event, fetched, post, pc, list, result, calls>>

NextLinks == CallIsTwitterInLinks \/ CallIsDomainInLinks

SpecLinks == InitLinks /\ [][NextLinks]_vars

(***************************************************************************)
(* Direct calls of processPost, on posts with urls and links of every      *)
(* kind: relative, reddit's own, with and without 'www.', upper case.      *)
(***************************************************************************)
ReddDotIt == <<"r", "e", "d", "d", ".", "i", "t">>

\* the url of a post, as the platform gives it
ContentUrls ==
    { Url(<<>>, <<"/", "r">>),
      Url(ReddDotIt, <<"/", "x">>),
      Url(<<"v", ".">> \o ReddDotIt, <<"/", "x">>),
      Url(<<"i", ".">> \o ReddDotIt, <<"/", "x">>),
      Url(<<"r", "e", "d", "d", "i", "t", ".", "c", "o", "m">>, <<"/", "r">>),
      Url(BaseHostname, <<"/", "r">>),
      Url(BDotCo, <<"/">>),
      Url(WwwBDotCo, <<"/">>),
      Url(<<"X", ".", "c", "o", "m">>, <<"/", "A", "b">>) }

\* a link linkify finds in a body; the last is no URL
ContentLinks ==
    { Url(<<>>, <<"/", "r">>),
      Url(ReddDotIt, <<"/", "x">>),
      Url(<<"i", ".">> \o ReddDotIt, <<"/", "x">>),
      Url(BaseHostname, <<"/", "r">>),
      Url(BDotCo, <<"/">>),
      Url(WwwBDotCo, <<"/">>),
      Url(<<"b", " ", "c">>, <<"/">>) }

ContentPost(url, body, found) ==
    [id |-> PostId, subredditName |-> SubredditName, authorName |-> <<"a">>,
     title |-> <<"e">>, url |-> url, body |-> body, found |-> found]

ContentPosts ==
    {ContentPost(u, Null, <<>>) : u \in ContentUrls}
    \cup {ContentPost(u, Some(<<>>), <<>>) : u \in ContentUrls}
    \cup {ContentPost(u, Some(<<"e">>), f) :
                u \in ContentUrls, f \in SeqsUpTo(ContentLinks, MaxLinks)}

\* the registry of these calls: one source, of the domain b.co
ContentSources == {sourceSchema(Raw("1", <<"e">>, FALSE, "media", Null, Null, Some(<<BDotCo>>)))}

InitContent ==
    /\ settings \in Settings({<<s>> : s \in ContentSources}, {FALSE}, {IgnoredUsers}, {<<>>})
    /\ fails = {}
    /\ event = NoEvent
    /\ fetched \in ContentPosts
    /\ post = NoPost
    /\ pc = "call"
    /\ list = <<>>
    /\ result = Null
    /\ calls = <<>>
    /\ ret = NoCalls

CallProcessPost ==
    /\ pc = "call"
    /\ IF processPost(fetched).type = "throw"
       THEN post' = NoPost /\ pc' = "caught"
       ELSE post' = processPost(fetched).value /\ pc' = "content"
    /\ UNCHANGED <<settings, fails, event, fetched, list, result, calls, ret>>

NextContent == CallProcessPost

SpecContent == InitContent /\ [][NextContent]_vars

(***************************************************************************)
(* Claims about findSourcesInPost, checked under Spec.                     *)
(***************************************************************************)
Holds(completion) == completion.type = "normal" /\ completion.value

\* the array findSourcesInPost returned ([] for null)
Returned == IF result = Null THEN <<>> ELSE Get(result)

Range(array) == {array[i] : i \in DOMAIN array}

MatchesTitle(source) ==
    \/ Holds(isNameInTitle(post.titleNormalized, source))
    \/ Holds(isTwitterInTitle(post.titleNormalized, source))

MatchesUrl(source) ==
    /\ post.url # Null
    /\ \/ Holds(isTwitterInUrl(Get(post.url), source))
       \/ Holds(isDomainInUrl(Get(post.url), source))

MatchesLinks(source) ==
    /\ post.links # Null
    /\ \/ Holds(isTwitterInLinks(Get(post.links), source))
       \/ Holds(isDomainInLinks(Get(post.links), source))

MatchesBody(source) ==
    /\ post.bodyNormalized # Null
    /\ settings.analyzePostBody
    /\ \/ Holds(isNameInBody(Get(post.bodyNormalized), source))
       \/ Holds(isTwitterInBody(Get(post.bodyNormalized), source))

Matches(source) ==
    MatchesTitle(source) \/ MatchesUrl(source) \/ MatchesLinks(source) \/ MatchesBody(source)

Matching == {s \in Range(settings.sources) : Matches(s)}

\* C1: the sources findSourcesInPost returns are exactly the registry sources
\* that match on at least one scanned channel
C1_ReturnsExactlyTheMatching ==
    pc = "returned" => Range(Returned) = Matching

\* C2: in the returned sequence the tiers of tiered sources are
\* non-decreasing and every tiered source precedes every untiered source
C2_TieredAscendingThenUntiered ==
    pc = "returned" =>
        \A i, j \in DOMAIN Returned :
            i < j =>
                /\ (Returned[i].tier # Null /\ Returned[j].tier # Null
                        => Get(Returned[i].tier) <= Get(Returned[j].tier))
                /\ ~(Returned[i].tier = Null /\ Returned[j].tier # Null)

\* C3: whenever findSourcesInPost returns, it returns null exactly when no
\* registry source matches on a scanned channel, and never an empty array
C3_NullIffNoMatch ==
    pc = "returned" =>
        /\ (result = Null) <=> (Matching = {})
        /\ result # Null => Len(Get(result)) >= 1

\* a scan of all four channels of a non-empty registry that returned null
C3_Witness ==
    /\ pc = "returned"
    /\ result = Null
    /\ Len(settings.sources) = MaxSources
    /\ post.url # Null /\ post.links # Null
    /\ post.bodyNormalized # Null /\ settings.analyzePostBody

IsPrefix(p, q) == Len(p) <= Len(q) /\ \A i \in DOMAIN p : p[i] = q[i]

\* C4: no two returned sources have the same id, and a later channel leaves
\* the entries the Map already holds as they are, in their places
C4_OncePerIdAndRematchNoOp ==
    /\ [](pc = "returned" =>
            \A i, j \in DOMAIN Returned : Returned[i].id = Returned[j].id => i = j)
    /\ [][(pc \in {"url", "links", "body"} /\ pc' # "threw") => IsPrefix(list, list')]_vars

\* no two entries of the registry have the same id
UniqueIds ==
    \A i, j \in DOMAIN settings.sources :
        settings.sources[i].id = settings.sources[j].id => i = j

\* every tier of the registry is one of 1..5
TiersInRange ==
    \A i \in DOMAIN settings.sources :
        settings.sources[i].tier # Null => Get(settings.sources[i].tier) \in 1..5

\* the registry entries that match, by their place in the registry
MatchingEntries == {k \in DOMAIN settings.sources : Matches(settings.sources[k])}

\* as many sources are returned as registry entries match, and each is an
\* entry that matched
LosslessDedup ==
    pc = "returned" =>
        /\ Len(Returned) = Cardinality(MatchingEntries)
        /\ \A i \in DOMAIN Returned : Returned[i] \in Matching

\* C13: findSourcesInPost never throws, and every source that matches is
\* returned whatever the other sources of the registry are
C13_NeverThrows ==
    /\ pc # "threw"
    /\ pc = "returned" => \A s \in Matching : \E i \in DOMAIN Returned : Returned[i].id = s.id

\* C14: the registry a handler has loaded holds no tier other than 1..5,
\* and the comment renderer never throws on a tier
C14_TiersValidated ==
    /\ pc # "idle" => TiersInRange
    /\ pc # "commentThrew"

\* C15: the registry a handler has loaded holds no id twice, and the scan
\* returns as many sources as registry entries match, each of them an entry
\* that matched
C15_UniqueIdsLosslessDedup ==
    /\ pc # "idle" => UniqueIds
    /\ LosslessDedup

\* C18: with analyzePostBody off, what findSourcesInPost returns is what it
\* returns for the same content without its body text
C18_BodyIgnoredWhenToggleOff ==
    (pc = "returned" /\ ~settings.analyzePostBody) =>
        LET without == findSourcesInPost([post EXCEPT !.bodyNormalized = Null], settings)
        IN  without.type = "normal" /\ without.value = result

\* a scan with analyzePostBody off of a content whose body text holds the
\* name or the handle of a source that is not returned
C18_Witness ==
    /\ pc = "returned" /\ ~settings.analyzePostBody
    /\ post.bodyNormalized # Null
    /\ \E s \in Range(settings.sources) :
            /\ \/ Holds(isNameInBody(Get(post.bodyNormalized), s))
               \/ Holds(isTwitterInBody(Get(post.bodyNormalized), s))
            /\ s \notin Range(Returned)

\* C19: a scan of the content of an earlier scan, on the same registry,
\* returns what the earlier scan returned: the same sources in the same order
C19_SameContentSameResult ==
    (pc = "returned" /\ ret.findSourcesInPost.type = "normal"
        /\ ret.findSourcesInPost.value.post = post)
            => result = ret.findSourcesInPost.value.result

\* a later scan of the content of the first scan that returned two sources
C19_Witness ==
    /\ pc = "returned" /\ ret.findSourcesInPost.type = "normal"
    /\ ret.findSourcesInPost.value.post = post
    /\ Len(Returned) >= 2

\* the two normalized fields of every source of the registry are what
\* normalizeText makes of the name and of the handle, a handle for which
\* present(twitter) does not hold giving null
NormalizedFields(present(_)) ==
    \A k \in DOMAIN settings.sources :
        LET source == settings.sources[k] IN
        /\ source.nameNormalized = normalizeText(source.name)
        /\ source.twitterNormalized =
                IF present(source.twitter)
                THEN Some(normalizeText(Get(source.twitter))) ELSE Null

\* C20 as stated: at every moment each source has nameNormalized =
\* normalizeText(name), twitterNormalized = normalizeText(twitter) when twitter
\* is not null and null when it is, and no step changes the registry
C20_NormalizedAndUnchanged ==
    /\ [](NormalizedFields(LAMBDA twitter : twitter # Null))
    /\ [][settings' = settings]_vars

\* C20 as amended: the same, where an empty handle counts as no handle
C20_NormalizedOrEmptyAndUnchanged ==
    /\ [](NormalizedFields(LAMBDA twitter : twitter # Null /\ Get(twitter) # <<>>))
    /\ [][settings' = settings]_vars

\* a comment was submitted for sources of a registry that holds an empty
\* handle and a name that normalizeText changes
C20_Witness ==
    /\ pc = "commented"
    /\ \E k \in DOMAIN settings.sources : settings.sources[k].twitter = Some(<<>>)
    /\ \E k \in DOMAIN settings.sources :
            settings.sources[k].name # settings.sources[k].nameNormalized

(***************************************************************************)
(* Claims about the predicates, checked under SpecName, SpecTwitter and    *)
(* SpecUrl.  A literal occurs at i when the text holds its characters      *)
(* from position i on.                                                     *)
(***************************************************************************)
OccursAt(lit, text, i) ==
    /\ i >= 1 /\ i + Len(lit) - 1 <= Len(text)
    /\ \A k \in DOMAIN lit : text[i + k - 1] = lit[k]

Occurrences(lit, text) == {i \in 1..Len(text) : OccursAt(lit, text, i)}

CharAt(text, i) == IF i >= 1 /\ i <= Len(text) THEN text[i] ELSE ""

\* the literal stands as a word of its own: no word character on either side
IsolatedAt(lit, text, i) ==
    ~IsWordAt(text, i - 1) /\ ~IsWordAt(text, i + Len(lit))

\* [lit] or (lit)
EnclosedAt(lit, text, i) ==
    \/ CharAt(text, i - 1) = "[" /\ CharAt(text, i + Len(lit)) = "]"
    \/ CharAt(text, i - 1) = "(" /\ CharAt(text, i + Len(lit)) = ")"

\* an opening and a closing bracket or parenthesis around the literal
BracketedAt(lit, text, i) ==
    CharAt(text, i - 1) \in {"[", "("} /\ CharAt(text, i + Len(lit)) \in {"]", ")"}

\* the text starts with the literal and a colon
ColonAtStart(lit, text) == OccursAt(lit \o <<":">>, text, 1)

Title == post.titleNormalized
Name == Source1.nameNormalized
Handle == Get(Source1.twitterNormalized)

\* C5: for a name that is not common, isNameInTitle returns true when the
\* title holds the name as an isolated word and false when the name occurs
\* only inside a longer word
C5_UncommonNameWholeWord ==
    (pc = "call" /\ ~Source1.nameIsCommon /\ ret.isNameInTitle.type = "normal") =>
        /\ (\E i \in Occurrences(Name, Title) : IsolatedAt(Name, Title, i))
                => ret.isNameInTitle.value
        /\ (/\ Occurrences(Name, Title) # {}
            /\ \A i \in Occurrences(Name, Title) : ~IsolatedAt(Name, Title, i))
                => ~ret.isNameInTitle.value

\* C6: for a common name, isNameInTitle returns true when the name is in
\* square brackets or parentheses or is followed by ':' at the start of the
\* title, and false when it occurs only bare or inside a longer token
C6_CommonNamePatterns ==
    (pc = "call" /\ Source1.nameIsCommon /\ ret.isNameInTitle.type = "normal") =>
        /\ (\/ \E i \in Occurrences(Name, Title) : EnclosedAt(Name, Title, i)
            \/ ColonAtStart(Name, Title))
                => ret.isNameInTitle.value
        /\ (/\ Occurrences(Name, Title) # {}
            /\ \A i \in Occurrences(Name, Title) : ~BracketedAt(Name, Title, i)
            /\ ~ColonAtStart(Name, Title))
                => ~ret.isNameInTitle.value

\* C7: on the same text isNameInBody gives what isNameInTitle gives
C7_BodyNameSameAsTitle ==
    (pc = "call" /\ ret.isNameInTitle.type # "pending" /\ ret.isNameInBody.type # "pending")
        => ret.isNameInBody = ret.isNameInTitle

\* C23: a registry literal is matched as opaque text, never as pattern
\* syntax: the name predicates build their patterns from any name without a
\* throw, and hold only for a text that literally contains the name
C23_LiteralsOpaque ==
    /\ ret.isNameInTitle.type # "throw"
    /\ ret.isNameInBody.type # "throw"
    /\ Holds(ret.isNameInTitle) => Occurrences(Name, Title) # {}
    /\ Holds(ret.isNameInBody) => Occurrences(Name, Get(post.bodyNormalized)) # {}

\* what C8 says of one of the two handle predicates, given its completion
C8_For(r) ==
    IF Source1.twitterNormalized = Null
    THEN r.type # "pending" => r = Normal(FALSE)
    ELSE r.type = "normal" =>
        /\ (\/ ColonAtStart(Handle, Title)
            \/ ColonAtStart(<<"@">> \o Handle, Title)
            \/ \E i \in Occurrences(Handle, Title) :
                    CharAt(Title, i - 1) = "@" /\ ~IsWordAt(Title, i + Len(Handle))
            \/ \E i \in Occurrences(Handle, Title) : EnclosedAt(Handle, Title, i))
                => r.value
        /\ (/\ Occurrences(Handle, Title) # {}
            /\ \A i \in Occurrences(Handle, Title) :
                    CharAt(Title, i - 1) # "@" /\ ~BracketedAt(Handle, Title, i)
            /\ ~ColonAtStart(Handle, Title))
                => ~r.value

\* C8: isTwitterInTitle and isTwitterInBody return true for 'handle:' at the
\* start of the text (with or without '@'), for '@handle', '[handle]' and
\* '(handle)' anywhere, false for a bare handle, and false without a handle
C8_HandlePatterns ==
    pc = "call" => C8_For(ret.isTwitterInTitle) /\ C8_For(ret.isTwitterInBody)

\* what C9 says of one of the two handle predicates, given its completion
C9_For(r) ==
    (Source1.twitterNormalized # Null /\ r.type = "normal"
        /\ Occurrences(Handle, Title) # {}) =>
        /\ (\A i \in Occurrences(Handle, Title) : IsWordAt(Title, i + Len(Handle)))
                => ~r.value
        /\ (\A i \in Occurrences(Handle, Title) : IsWordAt(Title, i - 1))
                => ~r.value

\* C9: the handle predicates never match a handle that occurs only as the
\* start of a longer token, nor one that occurs only after an extra token
\* character
C9_HandleNotInsideToken ==
    pc = "call" => C9_For(ret.isTwitterInTitle) /\ C9_For(ret.isTwitterInBody)

\* the path is '/' and the handle, then '/', whitespace or the end, letter
\* case aside
PathIsHandle(pathname, handle) ==
    /\ Len(pathname) >= 1 + Len(handle)
    /\ pathname[1] = "/"
    /\ \A k \in DOMAIN handle : toLowerCase(pathname[1 + k]) = toLowerCase(handle[k])
    /\ \/ Len(pathname) = 1 + Len(handle)
       \/ pathname[2 + Len(handle)] \in {"/"} \cup WhiteSpace

\* C10: isTwitterInUrl is true exactly when the source has a handle, the
\* hostname is x.com or twitter.com and the path is '/' + handle followed
\* by '/', whitespace or the end of the path
C10_TwitterInUrlExactly ==
    (pc = "call" /\ ret.isTwitterInUrl.type = "normal") =>
        (ret.isTwitterInUrl.value <=>
            /\ Source1.twitterNormalized # Null
            /\ Get(post.url).hostname \in TwitterHostnames
            /\ PathIsHandle(Get(post.url).pathname, Handle))

EndsWith(text, suffix) ==
    /\ Len(suffix) <= Len(text)
    /\ SubSeq(text, Len(text) - Len(suffix) + 1, Len(text)) = suffix

\* the hostname is the domain, or labels and a dot before the domain
IsDomainOrSubdomain(hostname, domain) ==
    hostname = domain \/ EndsWith(hostname, <<".">> \o domain)

Hostname == Get(post.url).hostname

\* C11: isDomainInUrl is true exactly when the hostname equals one of the
\* source's domains or ends with '.' and one of them; a hostname that only
\* extends a label of the domain or carries the domain before other labels
\* does not match, nor does any hostname without domains
C11_DomainInUrlExactly ==
    (pc = "call" /\ ret.isDomainInUrl.type = "normal") =>
        (ret.isDomainInUrl.value <=>
            /\ Source1.domains # Null
            /\ \E d \in DOMAIN Get(Source1.domains) :
                    IsDomainOrSubdomain(Hostname, Get(Source1.domains)[d]))

Links == Get(post.links)

\* C12, the handle half: isTwitterInLinks is true iff isTwitterInUrl is true
\* of some link of the list
TwitterInLinksAsInUrl ==
    (pc = "call" /\ ret.isTwitterInLinks.type = "normal") =>
        (ret.isTwitterInLinks.value <=>
            \E u \in DOMAIN Links : Holds(isTwitterInUrl(Links[u], Source1)))

\* C12, the domain half: isDomainInLinks is true iff isDomainInUrl is true of
\* some link of the list
DomainInLinksAsInUrl ==
    (pc = "call" /\ ret.isDomainInLinks.type = "normal") =>
        (ret.isDomainInLinks.value <=>
            \E u \in DOMAIN Links : Holds(isDomainInUrl(Links[u], Source1)))

\* C12: on every list of links each of the two link predicates is true iff
\* the single-URL predicate is true of some link, so a link gives a handle
\* match only when its hostname is x.com or twitter.com
C12_LinksSameAsUrl == TwitterInLinksAsInUrl /\ DomainInLinksAsInUrl

(***************************************************************************)
(* Claims about processPost, checked under SpecContent.                    *)
(***************************************************************************)
\* the platform's own hostnames: short links, media, and the site
PlatformHostnames ==
    { ReddDotIt, <<"v", ".">> \o ReddDotIt, <<"i", ".">> \o ReddDotIt,
      <<"r", "e", "d", "d", "i", "t", ".", "c", "o", "m">>, BaseHostname }

LowerCase(text) == [i \in DOMAIN text |-> toLowerCase(text[i])]

\* the hostname of the post's url once resolved: the base's for a path
EventHostname ==
    IF fetched.url.hostname = <<>> THEN BaseHostname ELSE LowerCase(fetched.url.hostname)

\* the content has no url when the post's url is on one of the given
\* hostnames, and no link on any of them
NoUrlOn(hostnames) ==
    pc = "content" =>
        /\ EventHostname \in hostnames => post.url = Null
        /\ post.links # Null =>
                \A i \in DOMAIN Get(post.links) : Get(post.links)[i].hostname \notin hostnames

\* C16: the content built by processPost has no url when the post's url is
\* on redd.it, v.redd.it, i.redd.it, reddit.com or www.reddit.com (a path
\* resolved against the base included), and no link on any of them
C16_NoPlatformUrls == NoUrlOn(PlatformHostnames)

\* the hostnames of the links linkify found that are URLs, in lower case
FoundHostnames ==
    {LowerCase(fetched.found[j].hostname) :
        j \in {k \in DOMAIN fetched.found :
                /\ fetched.found[k].hostname # <<>>
                /\ \A i \in DOMAIN fetched.found[k].hostname :
                        fetched.found[k].hostname[i] \notin ForbiddenHostChars}}

\* the links of the content have the hostnames that were found, as found
LinksKeepHostnames ==
    post.links # Null =>
        \A i \in DOMAIN Get(post.links) : Get(post.links)[i].hostname \in FoundHostnames

CallsOf(name) == SelectSeq(calls, LAMBDA c : c.call = name)

\* the post fetched is a self-post: its url is on reddit.com or
\* www.reddit.com
SelfPost ==
    EventHostname \in { <<"r", "e", "d", "d", "i", "t", ".", "c", "o", "m">>, BaseHostname }

\* a flair is set only when one of the sources returned has a tier
NoFlairOnUntiered ==
    CallsOf("setPostFlair") # <<>> => \E i \in DOMAIN Returned : Returned[i].tier # Null

\* C21: no flair is set on a self-post, and none on a post none of whose
\* matched sources has a tier
C21_NoFlairOnSelfPostOrUntiered ==
    /\ CallsOf("setPostFlair") # <<>> => ~SelfPost
    /\ NoFlairOnUntiered

\* C22: when the first source of a result has no tier (!sources[0].tier),
\* no source of the result has a tier
C22_FirstUntieredAllUntiered ==
    (result # Null /\ ~Truthy(Returned[1].tier)) =>
        \A i \in DOMAIN Returned : Returned[i].tier = Null

(***************************************************************************)
(* The order of sources with equal keys, checked under SpecOrder.          *)
(***************************************************************************)
\* the first channel, of the four in their order, on which the source matches
FirstChannel(source) ==
    CASE MatchesTitle(source) -> 1
      [] MatchesUrl(source) -> 2
      [] MatchesLinks(source) -> 3
      [] OTHER -> 4

\* the first place of the source in the registry
RegistryIndex(source) ==
    CHOOSE k \in DOMAIN settings.sources :
        /\ settings.sources[k] = source
        /\ \A j \in 1..(k - 1) : settings.sources[j] # source

\* s is matched first before t: on an earlier channel, or on the same
\* channel and earlier in the registry
MatchedBefore(s, t) ==
    \/ FirstChannel(s) < FirstChannel(t)
    \/ FirstChannel(s) = FirstChannel(t) /\ RegistryIndex(s) <= RegistryIndex(t)

\* C25: two returned sources of the same tier, or both without a tier,
\* stand in the order of their first match: by channel (title, url, links,
\* body), then by place in the registry
C25_EqualKeysInFirstMatchOrder ==
    pc = "returned" =>
        \A i, j \in DOMAIN Returned :
            (i < j /\ Returned[i].tier = Returned[j].tier)
                => MatchedBefore(Returned[i], Returned[j])

(***************************************************************************)
(* Claims about the handler, checked under SpecHandler.                    *)
(***************************************************************************)
\* the entries of the ignoredUsers setting: what stands between its commas,
\* without the spaces around
IgnoredEntries ==
    LET items == split(settings.ignoredUsers, <<>>) IN
    {trim(items[i]) : i \in DOMAIN items}

\* the author of the event is an entry of the setting, whatever the case
AuthorIgnored ==
    /\ event.author.name # Null
    /\ \E entry \in IgnoredEntries : LowerCase(entry) = LowerCase(Get(event.author.name))

\* what the bot does to a post
BotActions == {"setPostFlair", "submitComment", "distinguish", "lock"}

\* C24: for an event whose author is, but for the case, an entry of the
\* ignoredUsers setting the handler sets no flair and submits, distinguishes
\* and locks no comment
C24_IgnoredAuthorNoBotAction ==
    AuthorIgnored => \A i \in DOMAIN calls : calls[i].call \notin BotActions

\* the handler returned for an author who differs in case from the entry of
\* the setting, on a post for which the scan returns sources
C24_Witness ==
    /\ pc = "ignored"
    /\ AuthorIgnored
    /\ Get(event.author.name) \notin IgnoredEntries
    /\ LET sources == findSourcesInPost(post, settings) IN
       sources.type = "normal" /\ sources.value # Null

\* C26: no exception leaves the handler, at most one error report is sent,
\* and one is sent only when errorReportSubredditName is not empty and the
\* event has a post id
C26_NeverPropagates ==
    /\ pc # "rejected"
    /\ Len(CallsOf("sendPrivateMessage")) <= 1
    /\ CallsOf("sendPrivateMessage") # <<>> =>
            settings.errorReportSubredditName # <<>> /\ event.post.id # Null

\* the places in calls of the platform calls of the given names
PlacesOf(names) == {i \in DOMAIN calls : calls[i].call \in names}

\* C27: a flair is set only when shouldFlairPost holds, and it has resolved
\* before the comment is submitted; distinguish and lock come only after a
\* comment submission that resolved, so never when composing or submitting
\* the comment failed; and a flair that was set stays: no later step takes
\* a platform call back or sets a second flair
C27_PlatformActionsOrdered ==
    /\ [](/\ PlacesOf({"setPostFlair"}) # {} => shouldFlairPost(post, Returned)
          /\ Cardinality(PlacesOf({"setPostFlair"})) <= 1
          /\ \A i \in PlacesOf({"setPostFlair"}), j \in PlacesOf({"submitComment"}) :
                i < j /\ calls[i].ok
          /\ \A j \in PlacesOf({"distinguish", "lock"}) :
                \E i \in PlacesOf({"submitComment"}) : i < j /\ calls[i].ok
          /\ pc = "commentThrew" => PlacesOf({"submitComment", "distinguish", "lock"}) = {})
    /\ [][pc # "idle" => IsPrefix(calls, calls')]_vars

\* the handler is over after a flair was set and the submission of the
\* comment rejected
C27_Witness ==
    /\ pc = "completed"
    /\ \E i \in PlacesOf({"setPostFlair"}) : calls[i].ok
    /\ \E j \in PlacesOf({"submitComment"}) : ~calls[j].ok

\* the event is a crosspost the handler has fetched the post for
CrosspostFetched == event.post.crosspostParentId # Null /\ fetched # NoFetched

\* C28: the comment and the flair go to the post that was fetched and
\* scanned, under its subreddit; for a crosspost that post is the parent,
\* not the post of the event; and the handler returns for an ignored user
\* exactly on the author of the event
C28_CrosspostTargetsParent ==
    /\ CrosspostFetched => fetched.id = Get(event.post.crosspostParentId)
    /\ post # NoPost => post = processPost(fetched).value
    /\ \A i \in PlacesOf(BotActions) : calls[i].arg[1] = fetched.id
    /\ \A i \in PlacesOf({"setPostFlair"}) : calls[i].arg[2] = fetched.subredditName
    /\ pc = "ignored" => AuthorIgnored
    /\ pc \in {"title", "url", "links", "body", "sort", "returned", "commented"}
            => ~AuthorIgnored

\* a comment and a flair for a crosspost whose parent is a post of another
\* subreddit, by an author who is on the list while the author of the event
\* is not
C28_Witness ==
    /\ pc = "commented"
    /\ CrosspostFetched
    /\ fetched.id # Get(event.post.id)
    /\ fetched.subredditName # Get(event.subreddit.name)
    /\ PlacesOf({"setPostFlair"}) # {}
    /\ \E entry \in IgnoredEntries : LowerCase(entry) = LowerCase(fetched.authorName)

(***************************************************************************)
(* Where the claims above fail, they fail on registry entries the schema   *)
(* lets through: a shared id, a tier above 5, a name or handle with        *)
(* pattern syntax in it.  On the other entries they hold.                  *)
(***************************************************************************)
Plain(lit) == \A i \in DOMAIN lit : lit[i] \in WordChars

PlainName == Plain(Source1.nameNormalized)

PlainHandle ==
    Source1.twitterNormalized = Null \/ Plain(Get(Source1.twitterNormalized))

UniqueIds_ReturnsExactlyTheMatching == UniqueIds => C1_ReturnsExactlyTheMatching

TiersInRange_TieredAscendingThenUntiered == TiersInRange => C2_TieredAscendingThenUntiered

UniqueIds_RematchNoOp ==
    [][(UniqueIds /\ pc \in {"url", "links", "body"} /\ pc' # "threw")
            => IsPrefix(list, list')]_vars

\* the name, the handle and the domains of every source are valid patterns
ValidPatterns ==
    \A k \in DOMAIN settings.sources :
        LET source == settings.sources[k] IN
        /\ Fragment(source.nameNormalized).ok
        /\ source.twitterNormalized # Null => Fragment(Get(source.twitterNormalized)).ok
        /\ source.domains # Null =>
                \A d \in DOMAIN Get(source.domains) :
                    Fragment(EscapePeriods(Get(source.domains)[d])).ok

ValidPatterns_NeverThrows == ValidPatterns => C13_NeverThrows

TiersInRange_RendererNeverThrows == TiersInRange => pc # "commentThrew"

UniqueIds_LosslessDedup == UniqueIds => LosslessDedup

PlainName_UncommonNameWholeWord == PlainName => C5_UncommonNameWholeWord

PlainName_CommonNamePatterns == PlainName => C6_CommonNamePatterns

PlainHandle_HandlePatterns == PlainHandle => C8_HandlePatterns

PlainHandle_HandleNotInsideToken == PlainHandle => C9_HandleNotInsideToken

PlainHandle_TwitterInUrlExactly == PlainHandle => C10_TwitterInUrlExactly

\* domains made of the characters of hostnames: letters, '-' and '.'
PlainDomains ==
    Source1.domains = Null
    \/ \A d \in DOMAIN Get(Source1.domains) :
            \A i \in DOMAIN Get(Source1.domains)[d] :
                Get(Source1.domains)[d][i] \in WordChars \cup {".", "-"}

PlainDomains_DomainInUrlExactly == PlainDomains => C11_DomainInUrlExactly

\* what processPost excludes is the hostnames of its own list
OwnHostnames_NoPlatformUrls == NoUrlOn(OwnHostnames)

\* every link of the list is on x.com or twitter.com
TwitterLinksOnly ==
    \A u \in DOMAIN Links : Links[u].hostname \in TwitterHostnames

TwitterLinksOnly_LinksSameAsUrl ==
    (TwitterLinksOnly => TwitterInLinksAsInUrl) /\ DomainInLinksAsInUrl

\* the half of C21 that holds: an untiered result is never flaired
Untiered_NoFlair == NoFlairOnUntiered

TiersInRange_FirstUntieredAllUntiered == TiersInRange => C22_FirstUntieredAllUntiered

PlainName_LiteralsOpaque == PlainName => C23_LiteralsOpaque

UniqueIds_EqualKeysInFirstMatchOrder == UniqueIds => C25_EqualKeysInFirstMatchOrder

\* the settings parse, and the error report is delivered when one is sent
ReportGoesOut == getAllSettings(settings).type = "normal" /\ "sendPrivateMessage" \notin fails

ReportGoesOut_NeverPropagates == ReportGoesOut => C26_NeverPropagates

====
